---- MODULE Spec2Model ----
(***************************************************************************)
(* Model of the kinematic truck controller (KinematicTruckController,      *)
(* sampleAccelerationCurve), the collision effect mapper                   *)
(* (collision_events.ts) and the host frame loop (tick).                   *)
(*                                                                         *)
(* JavaScript numbers are modelled as exact rationals [n, d] in lowest     *)
(* terms with d > 0; NaN and the infinities are outside the model.         *)
(***************************************************************************)
EXTENDS Integers, Sequences, FiniteSets, TLC

(***************************************************************************)
(* Rational arithmetic (the Number operations the code uses).              *)
(***************************************************************************)
IAbs(i) == IF i < 0 THEN -i ELSE i

RECURSIVE GCD(_, _)
GCD(a, b) == IF b = 0 THEN a ELSE GCD(b, a % b)

Reduce(n, d, g) == [n |-> n \div g, d |-> d \div g]

Norm(n, d) ==
  IF d < 0 THEN Reduce(-n, -d, GCD(IAbs(n), -d)) ELSE Reduce(n, d, GCD(IAbs(n), d))

R(i) == [n |-> i, d |-> 1]
Q(i, j) == Norm(i, j)

Zero == R(0)
One == R(1)

\* Integers (d = 1) need no reduction.
RAdd(a, b) ==
  IF a.d = 1 /\ b.d = 1 THEN [n |-> a.n + b.n, d |-> 1]
  ELSE Norm(a.n * b.d + b.n * a.d, a.d * b.d)
RNeg(a) == [n |-> -a.n, d |-> a.d]
RSub(a, b) == RAdd(a, RNeg(b))
RMul(a, b) ==
  IF a.d = 1 /\ b.d = 1 THEN [n |-> a.n * b.n, d |-> 1]
  ELSE Norm(a.n * b.n, a.d * b.d)
RDiv(a, b) == Norm(a.n * b.d, a.d * b.n)
RLe(a, b) == a.n * b.d <= b.n * a.d
RLt(a, b) == a.n * b.d < b.n * a.d
RGe(a, b) == RLe(b, a)
RGt(a, b) == RLt(b, a)
RAbs(a) == [n |-> IAbs(a.n), d |-> a.d]
RMin(a, b) == IF RLe(a, b) THEN a ELSE b
RMax(a, b) == IF RGe(a, b) THEN a ELSE b
RIsInt(a) == a.d = 1

\* Math.sign
Sign(a) == IF a.n > 0 THEN One ELSE IF a.n < 0 THEN R(-1) ELSE Zero

\* x || 1 on numbers: 0 is falsy
OrOne(a) == IF a.n = 0 THEN One ELSE a

\* Math.round: the nearest integer, halves rounded towards +infinity
Round(a) == R((2 * a.n + a.d) \div (2 * a.d))

(***************************************************************************)
(* Helpers shared by both source files.                                    *)
(***************************************************************************)
clampNoUpper(value, min, max) == RMax(value, min)

clamp(value, min, max) == RMin(RMax(value, min), max)

lerp(a, b, t) == RAdd(a, RMul(RSub(b, a), t))

approachOvershoot(value, target, delta) ==
  IF RLt(value, target) THEN RAdd(value, delta) ELSE RSub(value, delta)

approach(value, target, delta) ==
  IF RLt(value, target)
    THEN RMin(RAdd(value, delta), target)
    ELSE RMax(RSub(value, delta), target)

dot(a, b) == RAdd(RAdd(RMul(a.x, b.x), RMul(a.y, b.y)), RMul(a.z, b.z))

(***************************************************************************)
(* sampleAccelerationCurve: the loop over consecutive pairs is the         *)
(* recursion on i.                                                         *)
(***************************************************************************)
RECURSIVE sampleScanShort(_, _, _)
sampleScanShort(speed, curve, i) ==
  IF i >= Len(curve) - 1
    THEN curve[Len(curve)].acceleration
    ELSE LET start == curve[i]
             end == curve[i + 1]
         IN  IF RGe(speed, start.speed) /\ RLe(speed, end.speed)
               THEN LET t == RDiv(RSub(speed, start.speed),
                                  OrOne(RSub(end.speed, start.speed)))
                    IN  RAdd(start.acceleration,
                             RMul(RSub(end.acceleration, start.acceleration), t))
               ELSE sampleScanShort(speed, curve, i + 1)

RECURSIVE sampleScan(_, _, _)
sampleScan(speed, curve, i) ==
  IF i > Len(curve) - 1
    THEN curve[Len(curve)].acceleration
    ELSE LET start == curve[i]
             end == curve[i + 1]
         IN  IF RGe(speed, start.speed) /\ RLe(speed, end.speed)
               THEN LET t == RDiv(RSub(speed, start.speed),
                                  OrOne(RSub(end.speed, start.speed)))
                    IN  RAdd(start.acceleration,
                             RMul(RSub(end.acceleration, start.acceleration), t))
               ELSE sampleScan(speed, curve, i + 1)

sampleAccelerationCurve(speed, curve) ==
  IF Len(curve) = 0 THEN Zero
  ELSE IF RLe(speed, curve[1].speed) THEN curve[1].acceleration
  ELSE sampleScan(speed, curve, 1)

(***************************************************************************)
(* collision_events.ts: mapImpactToEffects and its own clamp.              *)
(***************************************************************************)
clampImpact(value, min, max) == RMin(RMax(value, min), max)

effectsOf(magnitude, tuning, clamped) ==
  [magnitude |-> magnitude,
   audio |-> [volume |-> clamped,
              pitch |-> lerp(tuning.minAudioPitch, tuning.maxAudioPitch, clamped)],
   cameraShake |-> RMul(tuning.maxShake, clamped),
   particleCount |-> Round(RMul(tuning.maxParticles, clamped))]

mapImpactToEffectsUnclamped(magnitude, tuning) ==
  effectsOf(magnitude, tuning, RDiv(magnitude, tuning.maxMagnitude))

mapImpactToEffects(magnitude, tuning) ==
  effectsOf(magnitude, tuning,
            clampImpact(RDiv(magnitude, tuning.maxMagnitude), Zero, One))

(***************************************************************************)
(* Bounds of the model.                                                    *)
(***************************************************************************)
MaxAbsSpeed == 3
MaxCurveLen == 3
MaxQuery == 25
MaxMagnitudeArg == 5
MaxQueue == 2
MaxHostTicks == 2

(***************************************************************************)
(* TruckTuning, TruckInput and the rigid body.                             *)
(***************************************************************************)
Point(s, a) == [speed |-> R(s), acceleration |-> R(a)]

TorqueCurve == <<Point(0, 2), Point(2, 4), Point(4, 2)>>

TuningFields ==
  {"maxSpeed", "maxReverseSpeed", "wheelBase", "brakeDeceleration",
   "lateralGrip", "rollingResistance", "accelerationCurve"}

\* The tuning the controller is constructed with.
BaseTuning ==
  [maxSpeed |-> R(3), maxReverseSpeed |-> R(2), wheelBase |-> R(2),
   brakeDeceleration |-> R(4), lateralGrip |-> R(2), rollingResistance |-> R(1),
   accelerationCurve |-> TorqueCurve]

\* The other value each field takes in setTuning calls.
OtherTuning ==
  [maxSpeed |-> R(-1), maxReverseSpeed |-> Zero, wheelBase |-> R(4),
   brakeDeceleration |-> Zero, lateralGrip |-> Zero, rollingResistance |-> Zero,
   accelerationCurve |-> <<>>]

\* Partial<TruckTuning>: sel[f] = 0 leaves f out, 1 and 2 supply a value.
PartialOf(sel) ==
  [f \in {g \in TuningFields : sel[g] # 0} |->
     IF sel[f] = 1 THEN BaseTuning[f] ELSE OtherTuning[f]]

\* Every subset of the fields supplied with the other values, and the
\* full base tuning.
TuningPartials ==
  {PartialOf(sel) : sel \in [TuningFields -> {0, 2}]} \cup {BaseTuning}

\* The setTuning calls the host makes while driving.
PresetPartials ==
  { [maxSpeed |-> R(-1)],
    [maxSpeed |-> R(3)],
    [maxReverseSpeed |-> Zero, brakeDeceleration |-> Zero,
     rollingResistance |-> Zero, lateralGrip |-> Zero,
     accelerationCurve |-> <<>>],
    BaseTuning }

\* Steering angles are multiples of pi; Math.tan at the angles the model uses.
Angles == {Zero, Q(1, 4)}

Tan(a) ==
  CASE a = Zero -> Zero
    [] a = Q(1, 4) -> One
    [] a = Q(-1, 4) -> R(-1)

Dts == {R(-1), Zero, One}

Inputs ==
  [steeringAngle : Angles, throttle : {Zero, One}, brake : {Zero, R(2)},
   reverse : BOOLEAN]

Vec(a, b, c) == [x |-> a, y |-> b, z |-> c]

\* Body orientations, as the images of the local x, y and z axes.
Identity == <<Vec(One, Zero, Zero), Vec(Zero, One, Zero), Vec(Zero, Zero, One)>>
Yaw90 == <<Vec(Zero, Zero, R(-1)), Vec(Zero, One, Zero), Vec(One, Zero, Zero)>>
Pitch90 == <<Vec(One, Zero, Zero), Vec(Zero, Zero, One), Vec(Zero, R(-1), Zero)>>

Rotations == {Identity, Yaw90, Pitch90}

Velocities ==
  {Vec(R(3), R(-1), R(-2)), Vec(R(-2), Zero, R(3))}

AngularVelocities == {Vec(Zero, One, R(-1))}

transformVector(q, v) ==
  Vec(RAdd(RAdd(RMul(v.x, q[1].x), RMul(v.y, q[2].x)), RMul(v.z, q[3].x)),
      RAdd(RAdd(RMul(v.x, q[1].y), RMul(v.y, q[2].y)), RMul(v.z, q[3].y)),
      RAdd(RAdd(RMul(v.x, q[1].z), RMul(v.y, q[2].z)), RMul(v.z, q[3].z)))

VARIABLES
  tuning,              \* KinematicTruckController.tuning
  rotation,            \* rigidBody.rotation()
  linvel,              \* rigidBody.linvel()
  angvel,              \* rigidBody angular velocity
  curveArg,            \* sampleAccelerationCurve: the curve argument
  speedArg,            \* sampleAccelerationCurve: the speed argument
  magnitudeArg,        \* mapImpactToEffects: the magnitude argument
  effectTuning,        \* the CollisionEffectTuning of the host
  collisionEvents,     \* EventQueue: pending collision events
  contactForceEvents,  \* EventQueue: pending contact-force events
  clockLast,           \* clock.last, in milliseconds
  leftStick,           \* the left VirtualStick: activePointer and value
  rightStick,          \* the right VirtualStick: activePointer and value
  ticks,               \* frames the host has run
  call                 \* the operation that ran last, with its arguments and locals

truckVars == <<tuning, rotation, linvel, angvel>>
argVars == <<curveArg, speedArg, magnitudeArg>>
queueVars == <<collisionEvents, contactForceEvents>>
hostVars == <<clockLast, leftStick, rightStick, ticks>>

vars == <<tuning, rotation, linvel, angvel, curveArg, speedArg, magnitudeArg,
          effectTuning, collisionEvents, contactForceEvents, clockLast,
          leftStick, rightStick, ticks, call>>

(***************************************************************************)
(* KinematicTruckController                                                *)
(***************************************************************************)
mergeTuningReplace(current, partial) ==
  [f \in TuningFields |-> IF f \in DOMAIN partial THEN partial[f] ELSE BaseTuning[f]]

mergeTuning(current, partial) ==
  [f \in (DOMAIN current) \cup (DOMAIN partial) |->
     IF f \in DOMAIN partial THEN partial[f] ELSE current[f]]

SetTuning(partial) ==
  /\ tuning' = mergeTuning(tuning, partial)
  /\ call' = [op |-> "setTuning", partial |-> partial]
  /\ UNCHANGED <<rotation, linvel, angvel>>
  /\ UNCHANGED <<argVars, effectTuning, queueVars, hostVars>>

computeYawRate(tun, speed, steeringAngle) ==
  LET grip == clamp(tun.lateralGrip, Zero, One)
  IN  IF RLt(RAbs(speed), Q(1, 100))
        THEN Zero
        ELSE RMul(RMul(RDiv(speed, tun.wheelBase), Tan(steeringAngle)), grip)

computeLongitudinalAccelerationNoTieBreak(tun, speed, throttle, brake, reverse) ==
  LET throttleAccel == sampleAccelerationCurve(RAbs(speed), tun.accelerationCurve)
      signedThrottle == IF reverse THEN RNeg(throttle) ELSE throttle
      engineAccel == RMul(throttleAccel, signedThrottle)
      brakeAccel == RMul(RMul(tun.brakeDeceleration, clamp(brake, Zero, One)),
                         RNeg(Sign(speed)))
      resistance == RMul(tun.rollingResistance, RNeg(Sign(speed)))
  IN  RAdd(RAdd(engineAccel, brakeAccel), resistance)

computeLongitudinalAcceleration(tun, speed, throttle, brake, reverse) ==
  LET throttleAccel == sampleAccelerationCurve(RAbs(speed), tun.accelerationCurve)
      signedThrottle == IF reverse THEN RNeg(throttle) ELSE throttle
      engineAccel == RMul(throttleAccel, signedThrottle)
      brakeAccel == RMul(RMul(tun.brakeDeceleration, clamp(brake, Zero, One)),
                         RNeg(Sign(OrOne(speed))))
      resistance == RMul(tun.rollingResistance, RNeg(Sign(OrOne(speed))))
  IN  RAdd(RAdd(engineAccel, brakeAccel), resistance)

\* The model follows the body while its speed is within MaxAbsSpeed.
InRange(v) ==
  /\ RLe(RAbs(v.x), R(MaxAbsSpeed))
  /\ RLe(RAbs(v.y), R(MaxAbsSpeed))
  /\ RLe(RAbs(v.z), R(MaxAbsSpeed))

Update(dt, input) ==
  /\ InRange(linvel)
  /\ \E forward \in {transformVector(rotation, Vec(Zero, Zero, One))},
        right \in {transformVector(rotation, Vec(One, Zero, Zero))} :
     \E forwardSpeed \in {dot(linvel, forward)},
        lateralSpeed \in {dot(linvel, right)} :
     \E targetAcceleration \in
           {computeLongitudinalAcceleration(tuning, forwardSpeed, input.throttle,
                                            input.brake, input.reverse)} :
     \E newForwardSpeed \in
           {clamp(RAdd(forwardSpeed, RMul(targetAcceleration, dt)),
                  RNeg(tuning.maxReverseSpeed), tuning.maxSpeed)},
        lateralDamping \in {RMul(tuning.lateralGrip, dt)} :
     \E newLateralSpeed \in {approach(lateralSpeed, Zero, lateralDamping)} :
     \E newVelocity \in
           {Vec(RAdd(RMul(forward.x, newForwardSpeed), RMul(right.x, newLateralSpeed)),
                linvel.y,
                RAdd(RMul(forward.z, newForwardSpeed), RMul(right.z, newLateralSpeed)))},
        yawRate \in {computeYawRate(tuning, newForwardSpeed, input.steeringAngle)} :
         /\ linvel' = newVelocity
         /\ angvel' = Vec(Zero, yawRate, Zero)
         /\ call' = [op |-> "update", dt |-> dt, input |-> input,
                     forwardSpeed |-> forwardSpeed, lateralSpeed |-> lateralSpeed,
                     newForwardSpeed |-> newForwardSpeed,
                     newLateralSpeed |-> newLateralSpeed, yawRate |-> yawRate]
  /\ UNCHANGED <<tuning, rotation>>
  /\ UNCHANGED <<argVars, effectTuning, queueVars, hostVars>>

\* world.step(): the physics engine moves and turns the body between ticks.
PhysicsStep ==
  /\ rotation' \in Rotations
  /\ linvel' \in Velocities
  /\ angvel' \in AngularVelocities
  /\ call' = [op |-> "step"]
  /\ UNCHANGED tuning
  /\ UNCHANGED <<argVars, effectTuning, queueVars, hostVars>>

(***************************************************************************)
(* Calls of the two pure functions on arguments fixed at the start.        *)
(***************************************************************************)
CurveSpeeds == {R(0), R(10), R(20)}
CurveAccelerations == {R(1), R(2), R(5)}
CurvePoints == [speed : CurveSpeeds, acceleration : CurveAccelerations]

\* Curves as callers keep them: sorted by speed (equal speeds included).
CurvesOfLen(k) ==
  {c \in [1..k -> CurvePoints] :
     \A i \in 1..(k - 1) : RLe(c[i].speed, c[i + 1].speed)}

Curves == UNION {CurvesOfLen(k) : k \in 0..MaxCurveLen}

Queries == {R(k) : k \in (-1)..MaxQuery}

Sample ==
  /\ call' = [op |-> "sample",
              result |-> sampleAccelerationCurve(speedArg, curveArg)]
  /\ UNCHANGED <<truckVars, argVars, effectTuning, queueVars, hostVars>>

Magnitudes == {Q(k, 2) : k \in (-2)..(2 * MaxMagnitudeArg)}

EffectTunings ==
  [maxMagnitude : {R(1), R(4)},
   minAudioPitch : {Q(1, 2), R(3)},
   maxAudioPitch : {R(2)},
   maxParticles : {Zero, Q(1, 2), Q(5, 2), R(3)},
   maxShake : {R(-1), Zero, Q(3, 2)}]

HostEffectTuning ==
  [maxMagnitude |-> R(4), minAudioPitch |-> Q(1, 2), maxAudioPitch |-> R(2),
   maxParticles |-> R(3), maxShake |-> Q(3, 2)]

MapImpact ==
  /\ call' = [op |-> "map",
              effects |-> mapImpactToEffects(magnitudeArg, effectTuning)]
  /\ UNCHANGED <<truckVars, argVars, effectTuning, queueVars, hostVars>>

(***************************************************************************)
(* drainCollisionEvents: the two callbacks run once per queued event, in   *)
(* queue order; the handler's calls are collected in handlerCalls.         *)
(***************************************************************************)
ColliderPairs == {<<1, 2>>, <<1, 3>>}

CollisionEventSet ==
  {[collider1 |-> p[1], collider2 |-> p[2], started |-> b] :
     p \in ColliderPairs, b \in BOOLEAN}

ForceMagnitudes == {R(2), R(6)}

ContactForceEventSet ==
  {[collider1 |-> p[1], collider2 |-> p[2], totalForceMagnitude |-> m] :
     p \in ColliderPairs, m \in ForceMagnitudes}

HandlerCall(c1, c2, effects) ==
  [collider1 |-> c1, collider2 |-> c2, effects |-> effects]

RECURSIVE collisionCallsUnfiltered(_, _)
collisionCallsUnfiltered(events, tun) ==
  IF events = <<>> THEN <<>>
  ELSE <<HandlerCall(Head(events).collider1, Head(events).collider2,
                     mapImpactToEffects(Zero, tun))>>
       \o collisionCallsUnfiltered(Tail(events), tun)

RECURSIVE collisionCalls(_, _)
collisionCalls(events, tun) ==
  IF events = <<>> THEN <<>>
  ELSE IF ~Head(events).started THEN collisionCalls(Tail(events), tun)
  ELSE <<HandlerCall(Head(events).collider1, Head(events).collider2,
                     mapImpactToEffects(Zero, tun))>>
       \o collisionCalls(Tail(events), tun)

RECURSIVE contactForceCallsOncePerPair(_, _)
contactForceCallsOncePerPair(events, tun) ==
  IF events = <<>> THEN <<>>
  ELSE LET rest == contactForceCallsOncePerPair(Tail(events), tun)
           e == Head(events)
       IN  IF \E i \in 1..Len(rest) :
                rest[i].collider1 = e.collider1 /\ rest[i].collider2 = e.collider2
             THEN rest
             ELSE <<HandlerCall(e.collider1, e.collider2,
                                mapImpactToEffects(e.totalForceMagnitude, tun))>>
                  \o rest

RECURSIVE contactForceCalls(_, _)
contactForceCalls(events, tun) ==
  IF events = <<>> THEN <<>>
  ELSE <<HandlerCall(Head(events).collider1, Head(events).collider2,
                     mapImpactToEffects(Head(events).totalForceMagnitude, tun))>>
       \o contactForceCalls(Tail(events), tun)

DrainCollisionEvents ==
  /\ call' = [op |-> "drain",
              collisionEvents |-> collisionEvents,
              contactForceEvents |-> contactForceEvents,
              handlerCalls |-> collisionCalls(collisionEvents, effectTuning)
                               \o contactForceCalls(contactForceEvents, effectTuning)]
  /\ collisionEvents' = <<>>
  /\ contactForceEvents' = <<>>
  /\ UNCHANGED <<truckVars, argVars, effectTuning, hostVars>>

\* The physics engine reports a collision start or stop.
PushCollisionEvent(e) ==
  /\ Len(collisionEvents) < MaxQueue
  /\ collisionEvents' = Append(collisionEvents, e)
  /\ call' = [op |-> "step"]
  /\ UNCHANGED <<truckVars, argVars, effectTuning, contactForceEvents, hostVars>>

\* The physics engine reports a contact force.
PushContactForceEvent(e) ==
  /\ Len(contactForceEvents) < MaxQueue
  /\ contactForceEvents' = Append(contactForceEvents, e)
  /\ call' = [op |-> "step"]
  /\ UNCHANGED <<truckVars, argVars, effectTuning, collisionEvents, hostVars>>

(***************************************************************************)
(* The host: the two virtual sticks and the frame callback tick.           *)
(***************************************************************************)
Vec2(a, b) == [x |-> a, y |-> b]

NoPointer == 0
PointerIds == {1, 2}

\* offset / maxRadius after the clamp to the stick's radius
StickValues == {Vec2(One, Zero), Vec2(Zero, R(-1)), Vec2(Q(-1, 2), Q(1, 2))}

StickIdle == [activePointer |-> NoPointer, value |-> Vec2(Zero, Zero)]

\* #handleDown, #handleMove and #handleUp of one VirtualStick
handleDown(stick, pointerId, value) ==
  IF stick.activePointer # NoPointer THEN stick
  ELSE [activePointer |-> pointerId, value |-> value]

handleMove(stick, pointerId, value) ==
  IF pointerId # stick.activePointer THEN stick
  ELSE [stick EXCEPT !.value = value]

handleUp(stick, pointerId) ==
  IF pointerId # stick.activePointer THEN stick
  ELSE StickIdle

PointerEvent(stick) ==
  \/ \E id \in PointerIds, v \in StickValues : stick' = handleDown(stick, id, v)
  \/ \E id \in PointerIds, v \in StickValues : stick' = handleMove(stick, id, v)
  \/ \E id \in PointerIds : stick' = handleUp(stick, id)

LeftPointerEvent ==
  /\ PointerEvent(leftStick)
  /\ call' = [op |-> "pointer"]
  /\ UNCHANGED <<truckVars, argVars, effectTuning, queueVars, clockLast,
                 rightStick, ticks>>

RightPointerEvent ==
  /\ PointerEvent(rightStick)
  /\ call' = [op |-> "pointer"]
  /\ UNCHANGED <<truckVars, argVars, effectTuning, queueVars, clockLast,
                 leftStick, ticks>>

\* Milliseconds between two animation frames.
FrameTimes == {0, 16, 50}

\* tick(time): everything one frame does, in order.  world.step() is the
\* physics engine's: it moves the body; no event queue is passed to it.
Tick(time) ==
  /\ ticks < MaxHostTicks
  /\ \E delta \in {RMin(Q(time - clockLast, 1000), Q(33, 1000))},
        steering \in {leftStick.value.x},
        throttle \in {RNeg(rightStick.value.y)} :
       call' = [op |-> "tick", delta |-> delta,
                force |-> RMul(throttle, R(40)),
                torque |-> RMul(steering, Q(14, 10)),
                timestep |-> delta,
                invoked |-> <<"applyForce", "applyTorqueImpulse", "step",
                              "render", "requestAnimationFrame">>]
  /\ clockLast' = time
  /\ rotation' \in Rotations
  /\ linvel' \in Velocities
  /\ angvel' \in AngularVelocities
  /\ ticks' = ticks + 1
  /\ UNCHANGED <<tuning, argVars, effectTuning, queueVars, leftStick, rightStick>>

(***************************************************************************)
(* Initial states and specifications.                                      *)
(***************************************************************************)
TruckAtRest ==
  /\ tuning = BaseTuning
  /\ rotation = Identity
  /\ linvel = Vec(Zero, Zero, Zero)
  /\ angvel = Vec(Zero, Zero, Zero)

NoArgs ==
  /\ curveArg = <<>>
  /\ speedArg = Zero
  /\ magnitudeArg = Zero

QueuesEmpty ==
  /\ collisionEvents = <<>>
  /\ contactForceEvents = <<>>

HostIdle ==
  /\ clockLast = 0
  /\ leftStick = StickIdle
  /\ rightStick = StickIdle
  /\ ticks = 0

\* The controller, driven through update and setTuning between physics steps.
Init ==
  /\ TruckAtRest
  /\ NoArgs
  /\ effectTuning = HostEffectTuning
  /\ QueuesEmpty
  /\ HostIdle
  /\ call = [op |-> "init"]

Next ==
  \/ PhysicsStep
  \/ \E partial \in PresetPartials : SetTuning(partial)
  \/ \E dt \in Dts, input \in Inputs : Update(dt, input)

Spec == Init /\ [][Next]_vars

\* setTuning with every subset of the fields, and an update that coasts.
CoastInput ==
  [steeringAngle |-> Q(1, 4), throttle |-> Zero, brake |-> Zero, reverse |-> FALSE]

NextTuning ==
  \/ \E partial \in TuningPartials : SetTuning(partial)
  \/ Update(Zero, CoastInput)

SpecTuning == Init /\ [][NextTuning]_vars

\* sampleAccelerationCurve on every curve and query speed.
InitCurve ==
  /\ TruckAtRest
  /\ curveArg \in Curves
  /\ speedArg \in Queries
  /\ magnitudeArg = Zero
  /\ effectTuning = HostEffectTuning
  /\ QueuesEmpty
  /\ HostIdle
  /\ call = [op |-> "init"]

SpecCurve == InitCurve /\ [][Sample]_vars

\* mapImpactToEffects on every magnitude and tuning.
InitEffects ==
  /\ TruckAtRest
  /\ curveArg = <<>>
  /\ speedArg = Zero
  /\ magnitudeArg \in Magnitudes
  /\ effectTuning \in EffectTunings
  /\ QueuesEmpty
  /\ HostIdle
  /\ call = [op |-> "init"]

SpecEffects == InitEffects /\ [][MapImpact]_vars

\* The event queue filled by the physics engine and drained by the host.
InitDrain ==
  /\ TruckAtRest
  /\ NoArgs
  /\ effectTuning \in {t \in EffectTunings : t.maxMagnitude = R(4) /\ t.maxShake = Q(3, 2)}
  /\ QueuesEmpty
  /\ HostIdle
  /\ call = [op |-> "init"]

NextDrain ==
  \/ \E e \in CollisionEventSet : PushCollisionEvent(e)
  \/ \E e \in ContactForceEventSet : PushContactForceEvent(e)
  \/ DrainCollisionEvents

SpecDrain == InitDrain /\ [][NextDrain]_vars

\* The program as main wires it: pointer events and animation frames.
NextHost ==
  \/ LeftPointerEvent
  \/ RightPointerEvent
  \/ \E ms \in FrameTimes : Tick(clockLast + ms)

SpecHost == Init /\ [][NextHost]_vars

(***************************************************************************)
(* Properties of update (under Spec).                                      *)
(***************************************************************************)
IsUpdate == call.op = "update"

SpeedLimitsValid ==
  /\ RGe(tuning.maxSpeed, Zero)
  /\ RGe(tuning.maxReverseSpeed, Zero)

\* The forward speed read back from the body; it is the speed update wrote
\* while the body's forward axis is horizontal.
BodyForwardSpeed == dot(linvel, transformVector(rotation, Vec(Zero, Zero, One)))

\* C1: with maxSpeed >= 0 and maxReverseSpeed >= 0, the forward speed every
\* update writes to the body lies in [-maxReverseSpeed, maxSpeed] of the
\* tuning in effect, whatever dt, input and prior velocity were.
C1_ForwardSpeedWithinLimits ==
  (IsUpdate /\ SpeedLimitsValid) =>
     /\ RGe(call.newForwardSpeed, RNeg(tuning.maxReverseSpeed))
     /\ RLe(call.newForwardSpeed, tuning.maxSpeed)
     /\ rotation # Pitch90 =>
          /\ BodyForwardSpeed = call.newForwardSpeed
          /\ RGe(BodyForwardSpeed, RNeg(tuning.maxReverseSpeed))
          /\ RLe(BodyForwardSpeed, tuning.maxSpeed)

\* An update whose integration overshot maxSpeed and was clamped to it.
C1_Witness ==
  /\ IsUpdate
  /\ SpeedLimitsValid
  /\ call.input.throttle = One
  /\ call.dt = One
  /\ RLt(call.forwardSpeed, tuning.maxSpeed)
  /\ call.newForwardSpeed = tuning.maxSpeed
  /\ RGt(tuning.maxSpeed, Zero)

ZeroInput ==
  /\ call.input.throttle = Zero
  /\ call.input.brake = Zero
  /\ call.input.steeringAngle = Zero

\* C8: with throttle = brake = steeringAngle = 0 (either reverse) update
\* writes yaw rate 0 and the forward speed
\* clamp(forwardSpeed - sign(forwardSpeed or 1)*rollingResistance*dt,
\* -maxReverseSpeed, maxSpeed).
C8_ZeroInputCoasts ==
  (IsUpdate /\ ZeroInput) =>
     /\ call.yawRate = Zero
     /\ angvel = Vec(Zero, Zero, Zero)
     /\ call.newForwardSpeed =
          RMin(RMax(RSub(call.forwardSpeed,
                         RMul(RMul(IF call.forwardSpeed.n < 0 THEN R(-1) ELSE One,
                                   tuning.rollingResistance),
                              call.dt)),
                    RNeg(tuning.maxReverseSpeed)),
               tuning.maxSpeed)

\* A zero-input update of a truck at rest: rolling resistance alone moves it.
C8_Witness ==
  /\ IsUpdate
  /\ ZeroInput
  /\ call.input.reverse
  /\ call.forwardSpeed = Zero
  /\ call.dt = One
  /\ tuning.rollingResistance = One
  /\ call.newForwardSpeed = R(-1)

NoThrottleForwardTime ==
  /\ IsUpdate
  /\ call.input.throttle = Zero
  /\ RGe(call.dt, Zero)
  /\ RGe(tuning.brakeDeceleration, Zero)
  /\ RGe(tuning.rollingResistance, Zero)
  /\ SpeedLimitsValid

\* C10 as claimed: with throttle = 0 and dt >= 0, a forward speed >= 0 is
\* written back >= 0 and a forward speed <= 0 is written back <= 0.
C10_NeverReverses ==
  NoThrottleForwardTime =>
     /\ RGe(call.forwardSpeed, Zero) => RGe(call.newForwardSpeed, Zero)
     /\ RLe(call.forwardSpeed, Zero) => RLe(call.newForwardSpeed, Zero)

\* C10 as amended: with throttle = 0 and dt >= 0, braking and rolling
\* resistance never speed the truck up in its direction of travel (a
\* positive speed is written back no larger, a negative one no smaller), but
\* they can carry it through zero; at rest the speed written is
\* max(-(brakeDeceleration*clamp(brake,0,1) + rollingResistance)*dt,
\* -maxReverseSpeed), which is <= 0.
C10_NeverSpeedsUp ==
  NoThrottleForwardTime =>
     /\ RGt(call.forwardSpeed, Zero) => RLe(call.newForwardSpeed, call.forwardSpeed)
     /\ RLt(call.forwardSpeed, Zero) => RGe(call.newForwardSpeed, call.forwardSpeed)
     /\ call.forwardSpeed = Zero =>
          /\ RLe(call.newForwardSpeed, Zero)
          /\ call.newForwardSpeed =
               RMax(RNeg(RMul(RAdd(RMul(tuning.brakeDeceleration,
                                        RMin(RMax(call.input.brake, Zero), One)),
                                   tuning.rollingResistance),
                              call.dt)),
                    RNeg(tuning.maxReverseSpeed))

\* A truck at rest, no throttle, brake held: the update sets it rolling backwards.
C10_Witness ==
  /\ NoThrottleForwardTime
  /\ call.forwardSpeed = Zero
  /\ RGt(call.input.brake, Zero)
  /\ RLt(call.newForwardSpeed, Zero)

(***************************************************************************)
(* Properties of setTuning (under SpecTuning).                             *)
(***************************************************************************)
\* C2: a setTuning call sets every supplied field to the supplied value and
\* leaves every other field as it was; the update that follows runs on the
\* merged tuning (its speed limits are the merged ones).
C2_SetTuningMergesSupplied ==
  [][/\ call'.op = "setTuning" =>
          /\ DOMAIN tuning' = TuningFields
          /\ \A f \in TuningFields :
               tuning'[f] = IF f \in DOMAIN call'.partial
                              THEN call'.partial[f] ELSE tuning[f]
     /\ (call.op = "setTuning" /\ call'.op = "update") =>
          /\ tuning' = tuning
          /\ \A f \in DOMAIN call.partial : tuning'[f] = call.partial[f]
          /\ RLe(RNeg(tuning.maxReverseSpeed), tuning.maxSpeed) =>
               /\ RGe(call'.newForwardSpeed, RNeg(tuning.maxReverseSpeed))
               /\ RLe(call'.newForwardSpeed, tuning.maxSpeed)
          /\ RGt(RNeg(tuning.maxReverseSpeed), tuning.maxSpeed) =>
               call'.newForwardSpeed = tuning.maxSpeed
    ]_vars

\* setTuning({maxSpeed: -1}) on the base tuning changed maxSpeed only.
C2_Witness ==
  /\ call.op = "setTuning"
  /\ DOMAIN call.partial = {"maxSpeed"}
  /\ tuning.maxSpeed = R(-1)
  /\ \A f \in TuningFields \ {"maxSpeed"} : tuning[f] = BaseTuning[f]

(***************************************************************************)
(* Properties of sampleAccelerationCurve (under SpecCurve).                *)
(***************************************************************************)
StrictlyAscending(curve) ==
  \A i \in 1..(Len(curve) - 1) : RLt(curve[i].speed, curve[i + 1].speed)

\* The point on the segment from curve[i] to curve[i+1] at the given speed.
OnSegment(curve, i, speed) ==
  RAdd(curve[i].acceleration,
       RDiv(RMul(RSub(curve[i + 1].acceleration, curve[i].acceleration),
                 RSub(speed, curve[i].speed)),
            RSub(curve[i + 1].speed, curve[i].speed)))

ExampleCurve ==
  <<[speed |-> R(0), acceleration |-> R(2)],
    [speed |-> R(10), acceleration |-> R(5)],
    [speed |-> R(20), acceleration |-> R(1)]>>

\* C3: on a curve with strictly ascending speeds the sample is 0 for the
\* empty curve, the first acceleration at or below the first speed, the last
\* acceleration above the last speed, and otherwise the linear interpolation
\* on every segment that contains the speed; on [(0,2),(10,5),(20,1)]:
\* sample(5)=3.5, sample(-1)=2, sample(25)=1, sample(10)=5.
C3_SampleIsPiecewiseLinear ==
  (call.op = "sample" /\ StrictlyAscending(curveArg)) =>
     /\ Len(curveArg) = 0 => call.result = Zero
     /\ (Len(curveArg) > 0 /\ RLe(speedArg, curveArg[1].speed)) =>
          call.result = curveArg[1].acceleration
     /\ (Len(curveArg) > 0 /\ RGt(speedArg, curveArg[Len(curveArg)].speed)) =>
          call.result = curveArg[Len(curveArg)].acceleration
     /\ \A i \in 1..(Len(curveArg) - 1) :
          (RGe(speedArg, curveArg[i].speed) /\ RLe(speedArg, curveArg[i + 1].speed)) =>
             call.result = OnSegment(curveArg, i, speedArg)
     /\ curveArg = ExampleCurve =>
          /\ speedArg = R(5) => call.result = Q(7, 2)
          /\ speedArg = R(-1) => call.result = R(2)
          /\ speedArg = R(25) => call.result = R(1)
          /\ speedArg = R(10) => call.result = R(5)

\* A sample inside the last segment of the example curve.
C3_Witness ==
  /\ call.op = "sample"
  /\ curveArg = ExampleCurve
  /\ speedArg = R(15)
  /\ call.result = R(3)

(***************************************************************************)
(* Properties of mapImpactToEffects (under SpecEffects).                   *)
(***************************************************************************)
EffectTuningValid ==
  /\ RGt(effectTuning.maxMagnitude, Zero)
  /\ RLe(effectTuning.minAudioPitch, effectTuning.maxAudioPitch)
  /\ RGe(effectTuning.maxShake, Zero)
  /\ RGe(effectTuning.maxParticles, Zero)

EffectsBoundedExceptParticles ==
  /\ call.effects.magnitude = magnitudeArg
  /\ RGe(call.effects.audio.volume, Zero)
  /\ RLe(call.effects.audio.volume, One)
  /\ RGe(call.effects.audio.pitch, effectTuning.minAudioPitch)
  /\ RLe(call.effects.audio.pitch, effectTuning.maxAudioPitch)
  /\ RGe(call.effects.cameraShake, Zero)
  /\ RLe(call.effects.cameraShake, effectTuning.maxShake)
  /\ RIsInt(call.effects.particleCount)
  /\ RGe(call.effects.particleCount, Zero)

\* C4 as claimed: for a valid tuning and any magnitude, volume in [0,1],
\* pitch in [minAudioPitch, maxAudioPitch], cameraShake in [0, maxShake],
\* particleCount an integer in [0, maxParticles], magnitude passed through.
C4_EffectsWithinTuning ==
  (call.op = "map" /\ EffectTuningValid) =>
     /\ EffectsBoundedExceptParticles
     /\ RLe(call.effects.particleCount, effectTuning.maxParticles)

\* C4 as amended: the same, with particleCount an integer in
\* [0, round(maxParticles)], which is [0, maxParticles] exactly when
\* maxParticles is an integer.
C4_EffectsWithinRoundedTuning ==
  (call.op = "map" /\ EffectTuningValid) =>
     /\ EffectsBoundedExceptParticles
     /\ RLe(call.effects.particleCount, Round(effectTuning.maxParticles))
     /\ RIsInt(effectTuning.maxParticles) =>
          RLe(call.effects.particleCount, effectTuning.maxParticles)

\* A magnitude above maxMagnitude mapped at full scale, 2.5 particles rounded to 3.
C4_Witness ==
  /\ call.op = "map"
  /\ EffectTuningValid
  /\ RGt(magnitudeArg, effectTuning.maxMagnitude)
  /\ call.effects.audio.volume = One
  /\ effectTuning.maxParticles = Q(5, 2)
  /\ call.effects.particleCount = R(3)

(***************************************************************************)
(* Properties of drainCollisionEvents (under SpecDrain).                   *)
(***************************************************************************)
IsDrain == call.op = "drain"

Started(e) == e.started

StartedEvents == SelectSeq(call.collisionEvents, Started)

SamePair(a, b) == a.collider1 = b.collider1 /\ a.collider2 = b.collider2

\* C5: the handler is called for the collision events with started = true
\* only, each with magnitude 0 (volume 0, cameraShake 0, particleCount 0)
\* and its own collider pair, and then for each contact-force event with
\* that event's totalForceMagnitude and collider pair.
C5_DrainMagnitudes ==
  IsDrain =>
     /\ Len(call.handlerCalls) >= Len(StartedEvents)
     /\ \A i \in 1..Len(StartedEvents) :
          /\ SamePair(call.handlerCalls[i], StartedEvents[i])
          /\ call.handlerCalls[i].effects.magnitude = Zero
          /\ call.handlerCalls[i].effects.audio.volume = Zero
          /\ call.handlerCalls[i].effects.cameraShake = Zero
          /\ call.handlerCalls[i].effects.particleCount = Zero
     /\ \A j \in 1..(Len(call.handlerCalls) - Len(StartedEvents)) :
          /\ j <= Len(call.contactForceEvents)
          /\ SamePair(call.handlerCalls[Len(StartedEvents) + j],
                      call.contactForceEvents[j])
          /\ call.handlerCalls[Len(StartedEvents) + j].effects.magnitude =
               call.contactForceEvents[j].totalForceMagnitude

\* A drain of a stopped and a started collision and one contact force.
C5_Witness ==
  /\ IsDrain
  /\ Len(call.collisionEvents) = 2
  /\ ~call.collisionEvents[1].started
  /\ call.collisionEvents[2].started
  /\ Len(call.contactForceEvents) = 1
  /\ Len(call.handlerCalls) = 2
  /\ call.handlerCalls[2].effects.magnitude = R(6)

\* C6 as claimed: one drain calls the handler once per drained event, so
\* the number of handler calls is the number of events drained.
C6_OneCallPerDrainedEvent ==
  IsDrain =>
     Len(call.handlerCalls) = Len(call.collisionEvents) + Len(call.contactForceEvents)

CountCalls(p) ==
  Cardinality({i \in 1..Len(call.handlerCalls) :
                 <<call.handlerCalls[i].collider1, call.handlerCalls[i].collider2>> = p})

CountStarted(p) ==
  Cardinality({i \in 1..Len(call.collisionEvents) :
                 /\ call.collisionEvents[i].started
                 /\ <<call.collisionEvents[i].collider1,
                      call.collisionEvents[i].collider2>> = p})

CountForces(p) ==
  Cardinality({i \in 1..Len(call.contactForceEvents) :
                 <<call.contactForceEvents[i].collider1,
                   call.contactForceEvents[i].collider2>> = p})

\* C6 as amended: one drain calls the handler once per contact-force event
\* and once per collision event with started = true (collision events with
\* started = false are drained without a call), with no deduplication: per
\* collider pair and in total, calls = started collisions + contact forces.
C6_OneCallPerStartedOrForceEvent ==
  IsDrain =>
     /\ Len(call.handlerCalls) = Len(StartedEvents) + Len(call.contactForceEvents)
     /\ \A p \in ColliderPairs : CountCalls(p) = CountStarted(p) + CountForces(p)

\* Two contact forces and a started collision of the same pair: three calls.
C6_Witness ==
  /\ IsDrain
  /\ CountForces(<<1, 2>>) = 2
  /\ CountStarted(<<1, 2>>) = 1
  /\ CountCalls(<<1, 2>>) = 3
  /\ Len(call.collisionEvents) > Len(StartedEvents)

(***************************************************************************)
(* The frame callback (under SpecHost).                                    *)
(***************************************************************************)
\* The position of a step in the frame's calls, 0 when it is not made.
PositionOf(step) ==
  IF \E i \in 1..Len(call.invoked) : call.invoked[i] = step
    THEN CHOOSE i \in 1..Len(call.invoked) : call.invoked[i] = step
    ELSE 0

\* C9: every frame runs the physics step, then the controller's update,
\* then the drain of the event queues, in that order.
C9_TickStepUpdateDrain ==
  call.op = "tick" =>
     /\ PositionOf("step") > 0
     /\ PositionOf("update") > PositionOf("step")
     /\ PositionOf("drainCollisionEvents") > PositionOf("update")

====
